---- MODULE Spec2Model ----
(***************************************************************************)
(* Model of sirocco_api.py: six client operations of the Sirocco Energy    *)
(* national API.  Each operation validates its arguments, builds a URL,    *)
(* issues one blocking HTTP GET and maps the transport outcome to a return *)
(* value.                                                                  *)
(*                                                                         *)
(* Text is a sequence of tokens: literal fragments of the source are one   *)
(* token each, caller-supplied strings and rendered numbers are sequences  *)
(* of one-character tokens, so that int(), str() and strptime() are        *)
(* computed character by character.                                        *)
(***************************************************************************)
EXTENDS Integers, Sequences, FiniteSets, TLC

VARIABLES
    API_TOKEN,    \* module global, set at import
    API_VERSION,  \* module global
    pc,           \* "idle" | "sent" (blocked in requests.get) | "done"
    op,           \* the operation being called
    args,         \* its arguments
    url,          \* local url, as built so far
    headers,      \* headers passed to requests.get
    gets,         \* number of requests.get calls issued by the current call
    resp,         \* outcome of requests.get
    ret,          \* what the call returned or raised
    last,         \* history: outcome class of the previous call
    ref           \* history: the first call of the behaviour and its request

vars == <<API_TOKEN, API_VERSION, pc, op, args, url, headers, gets, resp, ret, last, ref>>

(***************************************************************************)
(* Bounds                                                                  *)
(***************************************************************************)
MaxOffset == 2

(***************************************************************************)
(* Python values: None, int, float (in halves), str (characters), bool     *)
(***************************************************************************)
PyNone == [t |-> "none", i |-> 0, s |-> <<>>]

PyI(n) == [t |-> "int", i |-> n, s |-> <<>>]

PyF(halves) == [t |-> "float", i |-> halves, s |-> <<>>]

PyS(chars) == [t |-> "str", i |-> 0, s |-> chars]

PyB(b) == [t |-> "bool", i |-> IF b THEN 1 ELSE 0, s |-> <<>>]

Digits == <<"0", "1", "2", "3", "4", "5", "6", "7", "8", "9">>

IsDigit(c) == \E k \in 1..10 : Digits[k] = c

DigitVal(c) == (CHOOSE k \in 1..10 : Digits[k] = c) - 1

RECURSIVE TextToNat(_)
TextToNat(s) ==
    IF s = <<>> THEN 0
    ELSE 10 * TextToNat(SubSeq(s, 1, Len(s) - 1)) + DigitVal(s[Len(s)])

RECURSIVE NatToText(_)
NatToText(n) ==
    IF n < 10 THEN <<Digits[n + 1]>>
    ELSE NatToText(n \div 10) \o <<Digits[(n % 10) + 1]>>

IntToText(n) == IF n < 0 THEN <<"-">> \o NatToText(-n) ELSE NatToText(n)

\* truncation toward zero, as int(float) does
Trunc(halves) == IF halves < 0 THEN -((-halves) \div 2) ELSE halves \div 2

RECURSIVE LStrip(_)
LStrip(s) == IF s # <<>> /\ s[1] = " " THEN LStrip(Tail(s)) ELSE s

RECURSIVE RStrip(_)
RStrip(s) ==
    IF s # <<>> /\ s[Len(s)] = " " THEN RStrip(SubSeq(s, 1, Len(s) - 1)) ELSE s

AllDigits(s) == s # <<>> /\ \A k \in 1..Len(s) : IsDigit(s[k])

IntOk(v) == [ok |-> TRUE, exc |-> "", v |-> v]

IntFails(e) == [ok |-> FALSE, exc |-> e, v |-> 0]

\* the digits d of an int literal, after its sign
IntOfDigits(negative, d) ==
    IF ~AllDigits(d) THEN IntFails("ValueError")
    ELSE IF negative THEN IntOk(-TextToNat(d)) ELSE IntOk(TextToNat(d))

\* an int literal b without surrounding blanks: an optional sign, then digits
IntOfStripped(b) ==
    IF b # <<>> /\ b[1] \in {"+", "-"} THEN IntOfDigits(b[1] = "-", Tail(b))
    ELSE IntOfDigits(FALSE, b)

\* int(<str>): surrounding blanks, an optional sign, decimal digits
IntOfStr(s) == IntOfStripped(RStrip(LStrip(s)))

\* int(x)
PyInt(x) ==
    CASE x.t = "int" -> IntOk(x.i)
      [] x.t = "bool" -> IntOk(x.i)
      [] x.t = "float" -> IntOk(Trunc(x.i))
      [] x.t = "str" -> IntOfStr(x.s)
      [] OTHER -> IntFails("TypeError")

\* str(x), as an f-string renders it
PyStr(x) ==
    CASE x.t = "int" -> IntToText(x.i)
      [] x.t = "bool" -> IF x.i = 1 THEN <<"T", "r", "u", "e">> ELSE <<"F", "a", "l", "s", "e">>
      [] x.t = "float" ->
            (IF x.i < 0 THEN <<"-">> ELSE <<>>)
            \o NatToText((IF x.i < 0 THEN -x.i ELSE x.i) \div 2)
            \o <<".">>
            \o (IF x.i % 2 = 0 THEN <<"0">> ELSE <<"5">>)
      [] x.t = "str" -> x.s
      [] OTHER -> <<"N", "o", "n", "e">>

\* bool(x), as an if statement tests it
Truthy(x) ==
    CASE x.t = "none" -> FALSE
      [] x.t = "str" -> x.s # <<>>
      [] OTHER -> x.i # 0

(***************************************************************************)
(* pd.to_datetime(x, format="%Y-%m-%d %H:%M:%S")                           *)
(***************************************************************************)
At(s, k) == IF k >= 1 /\ k <= Len(s) THEN s[k] ELSE ""

RECURSIVE DigitRun(_, _)
DigitRun(s, k) == IF IsDigit(At(s, k)) THEN 1 + DigitRun(s, k + 1) ELSE 0

RECURSIVE SpaceRun(_, _)
SpaceRun(s, k) == IF At(s, k) = " " THEN 1 + SpaceRun(s, k + 1) ELSE 0

IsLeap(y) == (y % 4 = 0 /\ y % 100 # 0) \/ y % 400 = 0

DaysIn(y, m) ==
    IF m = 2 THEN (IF IsLeap(y) THEN 29 ELSE 28)
    ELSE IF m \in {4, 6, 9, 11} THEN 30 ELSE 31

\* "%Y-%m-%d %H:%M:%S", directive by directive
DateFormat == <<"Y", "-", "m", "-", "d", " ", "H", ":", "M", ":", "S">>

RECURSIVE MatchFormat(_, _, _, _)
\* a directive that reads n digits at k: %Y reads exactly four, the others one or two
MatchDigits(s, k, fmt, got, n) ==
    IF (Head(fmt) = "Y" /\ n = 4) \/ (Head(fmt) # "Y" /\ n \in 1..2)
    THEN MatchFormat(s, k + n, Tail(fmt), Append(got, TextToNat(SubSeq(s, k, k + n - 1))))
    ELSE <<>>

\* a blank of the format matches n >= 1 blanks
MatchBlanks(s, k, fmt, got, n) ==
    IF n >= 1 THEN MatchFormat(s, k + n, Tail(fmt), got) ELSE <<>>

\* the fields read from s[k..] under the rest fmt of the format, <<>> on a mismatch
MatchFormat(s, k, fmt, got) ==
    IF fmt = <<>> THEN (IF k = Len(s) + 1 THEN got ELSE <<>>)
    ELSE IF Head(fmt) \in {"-", ":"}
         THEN (IF At(s, k) = Head(fmt) THEN MatchFormat(s, k + 1, Tail(fmt), got) ELSE <<>>)
    ELSE IF Head(fmt) = " " THEN MatchBlanks(s, k, fmt, got, SpaceRun(s, k))
    ELSE MatchDigits(s, k, fmt, got, DigitRun(s, k))

\* the fields <<Y, m, d, H, M, S>> name a real instant
RealInstant(f) ==
    /\ Len(f) = 6
    /\ f[2] \in 1..12
    /\ f[3] \in 1..DaysIn(f[1], f[2])
    /\ f[4] \in 0..23
    /\ f[5] \in 0..59
    /\ f[6] \in 0..59

\* whether the characters s parse under %Y-%m-%d %H:%M:%S
Strptime(s) == RealInstant(MatchFormat(s, 1, DateFormat, <<>>))

\* pd.to_datetime raises ValueError; None gives None and "" gives NaT
ToDatetimeRaises(x) == x.t = "str" /\ x.s # <<>> /\ ~Strptime(x.s)

(***************************************************************************)
(* Return values and transport outcomes                                    *)
(***************************************************************************)
RetNone == [kind |-> "none", exc |-> "", text |-> <<>>, val |-> <<>>]

RetStr(t) == [kind |-> "str", exc |-> "", text |-> t, val |-> <<>>]

RetRaise(e, t) == [kind |-> "raise", exc |-> e, text |-> t, val |-> <<>>]

RetJson(b) == [kind |-> "json", exc |-> "", text |-> <<>>, val |-> b]

RetMap(f) == [kind |-> "map", exc |-> "", text |-> <<>>, val |-> f]

NoResp == [exc |-> FALSE, msg |-> <<>>, status |-> 0, parses |-> FALSE, body |-> [none |-> TRUE]]

ErrRun == <<"Error: run must be an integer or a string that can be converted to an integer">>

ErrInitDate == <<"Error: init_date must be in the format YYYY-mm-dd HH:MM:SS">>

ErrEndDate == <<"Error: end_date must be in the format YYYY-mm-dd HH:MM:SS">>

ErrInitAhead == <<"Error: init_ahead must be a positive integer">>

ErrEndAhead == <<"Error: end_ahead must be a positive integer">>

ErrOrder == <<"Error: end_ahead must be greater than init_ahead">>

ErrFlag == <<"Error: return_id_project must be a boolean">>

ErrIntType == <<"int() argument must be a string, a bytes-like object or a real number, not '">>

ErrStatus == <<"Error: Received response with status code ">>

ErrException == <<"Error: An exception occurred - ">>

TypeName(x) == IF x.t = "none" THEN "NoneType" ELSE x.t

\* the exception int(x) raises when it fails with result c
IntFailure(x, c) ==
    IF c.exc = "TypeError"
    THEN RetRaise("TypeError", ErrIntType \o <<TypeName(x), "'">>)
    ELSE RetRaise("ValueError", <<"invalid literal for int() with base 10: '">> \o PyStr(x) \o <<"'">>)

(***************************************************************************)
(* Validation and URL construction, operation by operation                 *)
(***************************************************************************)
NoArgs ==
    [run |-> PyNone, timezone |-> PyNone, init_date |-> PyNone, end_date |-> PyNone,
     init_ahead |-> PyNone, end_ahead |-> PyNone, return_id_project |-> PyNone]

ArgsRec(run, tz, init_date, end_date, init_ahead, end_ahead, flag) ==
    [run |-> run, timezone |-> tz, init_date |-> init_date, end_date |-> end_date,
     init_ahead |-> init_ahead, end_ahead |-> end_ahead, return_id_project |-> flag]

Endpoint(o) ==
    CASE o = "get_available_timezones" -> "timezones"
      [] o = "get_my_projects" -> "projects"
      [] o = "get_forecasts_info" -> "forecast"
      [] o = "get_selected_forecast" -> "selectedforecast"
      [] o = "get_backtests_info" -> "backtests"
      [] o = "get_selected_backtests" -> "selectedbacktests"

\* f"https://api.sirocco.energy/national/<endpoint>/{API_VERSION}/"
BaseUrl(o) == <<"https://api.sirocco.energy/national/", Endpoint(o), "/", API_VERSION, "/">>

\* f"...{API_VERSION}/?run={run}&timezone={timezone}"
RunUrl(o, run, tz) ==
    BaseUrl(o) \o <<"?run=">> \o PyStr(run) \o <<"&timezone=">> \o PyStr(tz)

HeadersWithheldAfterFailure(o) ==
    IF o = "get_available_timezones" \/ last \in {"exception", "status"}
    THEN {}
    ELSE {<<"Authorization", API_TOKEN>>}

\* headers = {"Authorization": API_TOKEN}; get_available_timezones passes none
Headers(o) ==
    IF o = "get_available_timezones" THEN {} ELSE {<<"Authorization", API_TOKEN>>}

Sent(u, h) == [sent |-> TRUE, url |-> u, headers |-> h, ret |-> RetNone]

Stopped(u, r) == [sent |-> FALSE, url |-> u, headers |-> {}, ret |-> r]

\* try: int(run) / except ValueError: return "Error: run must be ...";
\* c is what int(run) gave
RunVerdict(run, c) ==
    IF c.ok THEN RetNone
    ELSE IF c.exc = "ValueError" THEN RetStr(ErrRun)
    ELSE IntFailure(run, c)

RunCheck(run) == RunVerdict(run, PyInt(run))

Step(ok, u, r, ahead) == [ok |-> ok, url |-> u, ret |-> r, ahead |-> ahead]

\* if <date>: try: pd.to_datetime(<parsed>) / except ValueError: return <err>;
\* url += f"&<key>=<date>"
DateStep(st, date, parsed, key, err) ==
    IF ~st.ok \/ ~Truthy(date) THEN st
    ELSE IF ToDatetimeRaises(parsed) THEN Step(FALSE, st.url, RetStr(err), PyNone)
    ELSE Step(TRUE, st.url \o <<key>> \o PyStr(date), RetNone, PyNone)

\* the two date blocks; parsedForInit is the variable the init_date block parses
DateStage(u, init_date, end_date, parsedForInit) ==
    DateStep(DateStep(Step(TRUE, u, RetNone, PyNone),
                      init_date, parsedForInit, "&init=", ErrInitDate),
             end_date, end_date, "&end=", ErrEndDate)

\* try: <ahead> = int(<ahead>); if <ahead> < 0: raise ValueError
\* except ValueError: return <err>; url += f"&<key>={<ahead>}"; c is what int gave
AheadVerdict(st, ahead, c, key, err) ==
    IF c.exc = "TypeError" THEN Step(FALSE, st.url, IntFailure(ahead, c), ahead)
    ELSE IF ~c.ok \/ c.v < 0 THEN Step(FALSE, st.url, RetStr(err), ahead)
    ELSE Step(TRUE, st.url \o <<key>> \o IntToText(c.v), RetNone, PyI(c.v))

\* if <ahead>: ...; the step carries the local <ahead> as the block leaves it
AheadStep(st, ahead, key, err) ==
    IF ~st.ok \/ ~Truthy(ahead) THEN Step(st.ok, st.url, st.ret, ahead)
    ELSE AheadVerdict(st, ahead, PyInt(ahead), key, err)

\* if end_ahead and init_ahead and end_ahead <= init_ahead
OrderViolated(init_ahead, end_ahead) ==
    Truthy(end_ahead) /\ Truthy(init_ahead) /\ end_ahead.i <= init_ahead.i

PrepTimezones == Sent(BaseUrl("get_available_timezones"), Headers("get_available_timezones"))

PrepProjects(flag) ==
    IF flag.t # "bool" THEN Stopped(<<>>, RetRaise("ValueError", ErrFlag))
    ELSE Sent(BaseUrl("get_my_projects"), Headers("get_my_projects"))

PrepForecastsInfo(run, tz) ==
    Sent(RunUrl("get_forecasts_info", run, tz), Headers("get_forecasts_info"))

\* what a call does once all its blocks st have run
Dispatch(o, st) == IF st.ok THEN Sent(st.url, Headers(o)) ELSE Stopped(st.url, st.ret)

\* the run check v, then the date blocks
Dated(o, v, run, tz, init_date, end_date, parsedForInit) ==
    IF v # RetNone THEN Stopped(<<>>, v)
    ELSE Dispatch(o, DateStage(RunUrl(o, run, tz), init_date, end_date, parsedForInit))

PrepSelectedForecast(run, tz, init_date, end_date) ==
    Dated("get_selected_forecast", RunCheck(run), run, tz, init_date, end_date, end_date)

PrepBacktestsInfo(run, tz, init_date, end_date) ==
    Dated("get_backtests_info", RunCheck(run), run, tz, init_date, end_date, end_date)

\* the ordering check, after the init_ahead block a and the end_ahead block b
Ordered(a, b) ==
    IF b.ok /\ OrderViolated(a.ahead, b.ahead)
    THEN Step(FALSE, b.url, RetRaise("ValueError", ErrOrder), PyNone)
    ELSE b

\* the end_ahead block and the ordering check, after the init_ahead block a
AfterInitAhead(a, end_ahead) == Ordered(a, AheadStep(a, end_ahead, "&end_ahead=", ErrEndAhead))

\* the two offset blocks and the ordering check, after the date blocks d
AheadStage(d, init_ahead, end_ahead) ==
    AfterInitAhead(AheadStep(d, init_ahead, "&init_ahead=", ErrInitAhead), end_ahead)

\* the run check v, then the date blocks, the offset blocks and the ordering check
Offsetted(o, v, run, tz, init_date, end_date, init_ahead, end_ahead) ==
    IF v # RetNone THEN Stopped(<<>>, v)
    ELSE Dispatch(o, AheadStage(DateStage(RunUrl(o, run, tz), init_date, end_date, init_date),
                                init_ahead, end_ahead))

PrepSelectedBacktests(run, init_date, end_date, init_ahead, end_ahead, tz) ==
    Offsetted("get_selected_backtests", RunCheck(run), run, tz,
              init_date, end_date, init_ahead, end_ahead)

(***************************************************************************)
(* Mapping the outcome of requests.get to the return value                 *)
(***************************************************************************)
\* {p["id"]: p["name"] for p in runs}: a later entry overwrites an earlier one
RECURSIVE ProjectMap(_)
ProjectMap(runs) ==
    IF runs = <<>> THEN <<>>
    ELSE LET init == ProjectMap(SubSeq(runs, 1, Len(runs) - 1))
             p == runs[Len(runs)]
         IN  [k \in (DOMAIN init) \cup {p.id} |-> IF k = p.id THEN p.name ELSE init[k]]

KeyError(k) == RetStr(ErrException \o <<"'", k, "'">>)

\* the body of the status-200 branch of get_my_projects
ProjectsOk(flag, r) ==
    IF ~flag THEN RetJson(r.body)
    ELSE IF "control" \notin DOMAIN r.body THEN KeyError("control")
    ELSE IF r.body.control # "Success" THEN RetJson(r.body)
    ELSE IF "runs" \notin DOMAIN r.body THEN KeyError("runs")
    ELSE RetMap(ProjectMap(r.body.runs))

ClassifyAny2xx(o, a, r) ==
    IF r.exc THEN RetStr(ErrException \o r.msg)
    ELSE IF r.status \in 200..299
         THEN IF ~r.parses THEN RetStr(ErrException \o r.msg)
              ELSE IF o = "get_my_projects" THEN ProjectsOk(a.return_id_project.i = 1, r)
              ELSE RetJson(r.body)
    ELSE RetStr(ErrStatus \o IntToText(r.status))

\* try: response = requests.get(...); if response.status_code == 200: return
\* response.json() else: return f"Error: ... {status_code}" except Exception as e
Classify(o, a, r) ==
    IF r.exc THEN RetStr(ErrException \o r.msg)
    ELSE IF r.status = 200
         THEN IF ~r.parses THEN RetStr(ErrException \o r.msg)
              ELSE IF o = "get_my_projects" THEN ProjectsOk(a.return_id_project.i = 1, r)
              ELSE RetJson(r.body)
    ELSE RetStr(ErrStatus \o IntToText(r.status))

(***************************************************************************)
(* Inputs                                                                  *)
(***************************************************************************)
Placeholder == <<"your_personal_token_here">>

\* os.environ.get("SIROCCO_API") if os.environ.get("SIROCCO_API") else <placeholder>
LoadToken(env) == IF Truthy(env) THEN env.s ELSE Placeholder

EnvValues == {PyNone, PyS(<<>>), PyS(<<"s", "3", "c", "r", "3", "t">>)}

Runs ==
    {PyI(42), PyS(<<"4", "2">>), PyS(<<"0", "7">>), PyS(<<"a", "b", "c">>), PyF(7), PyNone}

Timezones == {PyS(<<"U", "T", "C">>), PyS(<<"C", "E", "T">>)}

\* "2024-02-29 00:00:00"
DateGood ==
    PyS(<<"2", "0", "2", "4", "-", "0", "2", "-", "2", "9", " ",
          "0", "0", ":", "0", "0", ":", "0", "0">>)

\* "2024/02/29 00:00:00", the format the docstrings show
DateSlashes ==
    PyS(<<"2", "0", "2", "4", "/", "0", "2", "/", "2", "9", " ",
          "0", "0", ":", "0", "0", ":", "0", "0">>)

\* "2023-02-29 00:00:00", no such day
DateNoSuchDay ==
    PyS(<<"2", "0", "2", "3", "-", "0", "2", "-", "2", "9", " ",
          "0", "0", ":", "0", "0", ":", "0", "0">>)

Dates == {PyNone, DateGood, DateSlashes, DateNoSuchDay}

Offsets == {PyNone, PyF(3), PyS(<<"x">>)} \cup {PyI(n) : n \in -1..MaxOffset}

Flags == {PyB(TRUE), PyB(FALSE), PyI(1), PyNone}

Project(id, name) == [id |-> id, name |-> name]

Bodies ==
    { [control |-> "Success", runs |-> <<Project(1, "alpha"), Project(2, "beta")>>],
      [control |-> "Success", runs |-> <<Project(1, "alpha"), Project(1, "beta")>>],
      [control |-> "Success", runs |-> <<>>],
      [control |-> "Success", data |-> "forecast"],
      [control |-> "Error", message |-> "unknown run"],
      [runs |-> <<Project(1, "alpha")>>] }

Failed(m) == [exc |-> TRUE, msg |-> m, status |-> 0, parses |-> FALSE, body |-> [none |-> TRUE]]

Status(c) == [exc |-> FALSE, msg |-> <<>>, status |-> c, parses |-> TRUE, body |-> [none |-> TRUE]]

Garbled(c) ==
    [exc |-> FALSE, msg |-> <<"Expecting value: line 1 column 1 (char 0)">>,
     status |-> c, parses |-> FALSE, body |-> [none |-> TRUE]]

Answer(c, b) == [exc |-> FALSE, msg |-> <<>>, status |-> c, parses |-> TRUE, body |-> b]

Outcomes ==
    {Failed(<<"Connection refused">>), Failed(<<"Read timed out">>),
     Status(201), Status(404), Status(500), Garbled(200)}
    \cup {Answer(200, b) : b \in Bodies}

(***************************************************************************)
(* The calls                                                               *)
(***************************************************************************)
NoRef ==
    [set |-> FALSE, op |-> "none", args |-> NoArgs, url |-> <<>>, headers |-> {},
     sent |-> FALSE, ret |-> RetNone]

Init ==
    /\ \E env \in EnvValues : API_TOKEN = LoadToken(env)
    /\ API_VERSION = "v1.1"
    /\ pc = "idle"
    /\ op = "none"
    /\ args = NoArgs
    /\ url = <<>>
    /\ headers = {}
    /\ gets = 0
    /\ resp = NoResp
    /\ ret = RetNone
    /\ last = "none"
    /\ ref = NoRef

\* a call of operation o with arguments a, up to requests.get or to the return
\* or raise that comes before it; p is what validation and URL building gave
Invoke(o, a, p) ==
    /\ pc = "idle"
    /\ op' = o
    /\ args' = a
    /\ url' = p.url
    /\ headers' = p.headers
    /\ resp' = NoResp
    /\ IF p.sent
       THEN pc' = "sent" /\ gets' = gets + 1 /\ ret' = RetNone
       ELSE pc' = "done" /\ gets' = gets /\ ret' = p.ret
    /\ UNCHANGED <<API_TOKEN, API_VERSION>>

get_available_timezones == Invoke("get_available_timezones", NoArgs, PrepTimezones)

get_my_projects(return_id_project) ==
    Invoke("get_my_projects",
           ArgsRec(PyNone, PyNone, PyNone, PyNone, PyNone, PyNone, return_id_project),
           PrepProjects(return_id_project))

get_forecasts_info(run, timezone) ==
    Invoke("get_forecasts_info",
           ArgsRec(run, timezone, PyNone, PyNone, PyNone, PyNone, PyNone),
           PrepForecastsInfo(run, timezone))

get_selected_forecast(run, timezone, init_date, end_date) ==
    Invoke("get_selected_forecast",
           ArgsRec(run, timezone, init_date, end_date, PyNone, PyNone, PyNone),
           PrepSelectedForecast(run, timezone, init_date, end_date))

get_backtests_info(run, timezone, init_date, end_date) ==
    Invoke("get_backtests_info",
           ArgsRec(run, timezone, init_date, end_date, PyNone, PyNone, PyNone),
           PrepBacktestsInfo(run, timezone, init_date, end_date))

get_selected_backtests(run, init_date, end_date, init_ahead, end_ahead, timezone) ==
    Invoke("get_selected_backtests",
           ArgsRec(run, timezone, init_date, end_date, init_ahead, end_ahead, PyNone),
           PrepSelectedBacktests(run, init_date, end_date, init_ahead, end_ahead, timezone))

\* requests.get comes back (or throws) with an outcome of R and the call returns
Respond(R) ==
    /\ pc = "sent"
    /\ \E r \in R :
          /\ resp' = r
          /\ ret' = Classify(op, args, r)
    /\ pc' = "done"
    /\ UNCHANGED <<API_TOKEN, API_VERSION, op, args, url, headers, gets>>

\* the caller has the result; the locals of the call are gone
Return ==
    /\ pc = "done"
    /\ pc' = "idle"
    /\ op' = "none"
    /\ args' = NoArgs
    /\ url' = <<>>
    /\ headers' = {}
    /\ gets' = 0
    /\ resp' = NoResp
    /\ ret' = RetNone
    /\ UNCHANGED <<API_TOKEN, API_VERSION>>

\* the history variables play no part in the program: Spec leaves them alone
Untracked == UNCHANGED <<last, ref>>

\* a call starts only when the previous one has returned: the guard of Invoke,
\* stated before the inputs are drawn
Idle == pc = "idle"

Next ==
    \/ Idle /\ get_available_timezones /\ Untracked
    \/ Idle /\ \E f \in Flags : get_my_projects(f) /\ Untracked
    \/ Idle /\ \E r \in Runs, tz \in Timezones : get_forecasts_info(r, tz) /\ Untracked
    \/ Idle /\ \E r \in Runs, tz \in Timezones, i \in Dates, e \in Dates :
          get_selected_forecast(r, tz, i, e) /\ Untracked
    \/ Idle /\ \E r \in Runs, tz \in Timezones, i \in Dates, e \in Dates :
          get_backtests_info(r, tz, i, e) /\ Untracked
    \/ Idle /\ \E r \in Runs, tz \in Timezones, i \in Dates, e \in Dates,
                  ia \in Offsets, ea \in Offsets :
          get_selected_backtests(r, i, e, ia, ea, tz) /\ Untracked
    \/ Respond(Outcomes) /\ Untracked
    \/ Return /\ Untracked

Spec == Init /\ [][Next]_vars

(***************************************************************************)
(* The same calls with their history kept: ref is the first call of the    *)
(* behaviour with the request it sent, last is how the previous call       *)
(* ended.  Inputs are drawn from smaller sets so that every pair of calls  *)
(* is explored.                                                            *)
(***************************************************************************)
DetRuns == {PyI(42), PyS(<<"a", "b", "c">>)}

DetTimezones == {PyS(<<"U", "T", "C">>)}

DetDates == {PyNone, DateSlashes}

DetOffsets == {PyNone, PyI(1)}

DetFlags == {PyB(TRUE), PyNone}

DetOutcomes ==
    {Failed(<<"Connection refused">>), Status(404),
     Answer(200, [control |-> "Success", runs |-> <<Project(1, "alpha")>>])}

\* how the call that is returning ended
OutcomeClass ==
    IF gets = 0 THEN (IF ret.kind = "raise" THEN "raised" ELSE "validation")
    ELSE IF resp.exc \/ ~resp.parses THEN "exception"
    ELSE IF resp.status # 200 THEN "status"
    ELSE "value"

Tracked ==
    /\ last' = last
    /\ ref' = IF ref.set THEN ref
              ELSE [set |-> TRUE, op |-> op', args |-> args', url |-> url',
                    headers |-> headers', sent |-> (pc' = "sent"), ret |-> ret']

NextDet ==
    \/ Idle /\ get_available_timezones /\ Tracked
    \/ Idle /\ \E f \in DetFlags : get_my_projects(f) /\ Tracked
    \/ Idle /\ \E r \in DetRuns, tz \in DetTimezones : get_forecasts_info(r, tz) /\ Tracked
    \/ Idle /\ \E r \in DetRuns, tz \in DetTimezones, i \in DetDates, e \in DetDates :
          get_selected_forecast(r, tz, i, e) /\ Tracked
    \/ Idle /\ \E r \in DetRuns, tz \in DetTimezones, i \in DetDates, e \in DetDates :
          get_backtests_info(r, tz, i, e) /\ Tracked
    \/ Idle /\ \E r \in DetRuns, tz \in DetTimezones, i \in DetDates, e \in DetDates,
                  ia \in DetOffsets, ea \in DetOffsets :
          get_selected_backtests(r, i, e, ia, ea, tz) /\ Tracked
    \/ Respond(DetOutcomes) /\ Untracked
    \/ Return /\ last' = OutcomeClass /\ ref' = ref

SpecDet == Init /\ [][NextDet]_vars

(***************************************************************************)
(* Vocabulary of the properties                                            *)
(***************************************************************************)
RunOps ==
    {"get_forecasts_info", "get_selected_forecast", "get_backtests_info",
     "get_selected_backtests"}

DateOps == {"get_selected_forecast", "get_backtests_info", "get_selected_backtests"}

Called == pc # "idle"

\* the call has ended before requests.get by returning the string t
RefusedWith(t) == pc = "done" /\ gets = 0 /\ ret.kind = "str" /\ ret.text = t

\* x was passed by the caller
Supplied(x) == x.t # "none"

\* x is an integer or a string int() converts
IntLike(x) == x.t = "int" \/ (x.t = "str" /\ IntOfStr(x.s).ok)

\* x is a date string that does not parse under YYYY-MM-DD HH:MM:SS
DateBad(x) == x.t = "str" /\ ~Strptime(x.s)

RunAccepted == PyInt(args.run).ok

DatesFine == ~DateBad(args.init_date) /\ ~DateBad(args.end_date)

HasPrefix(u, p) == Len(u) >= Len(p) /\ SubSeq(u, 1, Len(p)) = p

(***************************************************************************)
(* C1: every run-accepting operation, given a run that is neither an       *)
(* integer nor a string convertible to an integer, returns the string      *)
(* "Error: run must be an integer or a string that can be converted to an  *)
(* integer" and issues no GET.                                             *)
(***************************************************************************)
C1_BadRunRefused ==
    (Called /\ op \in RunOps /\ ~IntLike(args.run)) => RefusedWith(ErrRun)

(***************************************************************************)
(* C2: in a date-accepting operation with a valid run, a supplied          *)
(* init_date that does not parse makes the call return the error string    *)
(* that names init_date, and a supplied end_date that does not parse (the  *)
(* init_date being absent or valid) the one that names end_date; no GET is *)
(* issued.                                                                 *)
(***************************************************************************)
C2_BadDateRefused ==
    (Called /\ op \in DateOps /\ RunAccepted) =>
        /\ DateBad(args.init_date) => RefusedWith(ErrInitDate)
        /\ (DateBad(args.end_date) /\ ~DateBad(args.init_date)) => RefusedWith(ErrEndDate)

(***************************************************************************)
(* C3: in get_selected_backtests with a valid run and valid dates, when    *)
(* both offsets are supplied and end_ahead <= init_ahead (0 included), the *)
(* call raises ValueError and issues no GET.                               *)
(***************************************************************************)
C3_OrderRaises ==
    ( /\ Called /\ op = "get_selected_backtests" /\ RunAccepted /\ DatesFine
      /\ args.init_ahead.t = "int" /\ args.init_ahead.i >= 0
      /\ args.end_ahead.t = "int" /\ args.end_ahead.i >= 0
      /\ args.end_ahead.i <= args.init_ahead.i )
    => (pc = "done" /\ gets = 0 /\ ret.kind = "raise" /\ ret.exc = "ValueError")

(***************************************************************************)
(* C4: in get_selected_backtests with a valid run and valid dates, a       *)
(* supplied init_ahead that is not a non-negative integer makes the call   *)
(* return "Error: init_ahead must be a positive integer", and likewise a   *)
(* supplied end_ahead (the init_ahead being absent or a non-negative       *)
(* integer) "Error: end_ahead must be a positive integer"; the string is   *)
(* returned, not raised, and no GET is issued.                             *)
(***************************************************************************)
NotNonNegativeInt(x) == Supplied(x) /\ ~(x.t = "int" /\ x.i >= 0)

C4_BadOffsetRefused ==
    (Called /\ op = "get_selected_backtests" /\ RunAccepted /\ DatesFine) =>
        /\ NotNonNegativeInt(args.init_ahead) => RefusedWith(ErrInitAhead)
        /\ (NotNonNegativeInt(args.end_ahead) /\ ~NotNonNegativeInt(args.init_ahead))
              => RefusedWith(ErrEndAhead)

(***************************************************************************)
(* C5: once the GET of a call has been issued, what the call returns is    *)
(* decided by the transport outcome alone: an exception with message m     *)
(* gives "Error: An exception occurred - m" (a body that does not parse    *)
(* included), a status c other than 200 gives "Error: Received response    *)
(* with status code c", status 200 gives the parsed body unchanged (except *)
(* get_my_projects with return_id_project=True), and nothing is raised.    *)
(***************************************************************************)
C5_OutcomeDecidesReturn ==
    (pc = "done" /\ gets >= 1) =>
        /\ ret.kind # "raise"
        /\ resp.exc => (ret.kind = "str" /\ ret.text = ErrException \o resp.msg)
        /\ (~resp.exc /\ resp.status # 200) =>
              (ret.kind = "str" /\ ret.text = ErrStatus \o IntToText(resp.status))
        /\ (~resp.exc /\ resp.status = 200 /\ ~resp.parses) =>
              (ret.kind = "str" /\ ret.text = ErrException \o resp.msg)
        /\ ( /\ ~resp.exc /\ resp.status = 200 /\ resp.parses
             /\ ~(op = "get_my_projects" /\ args.return_id_project = PyB(TRUE)) )
           => (ret.kind = "json" /\ ret.val = resp.body)

\* a get_selected_backtests call got status 500 and returned the status string
C5_Witness ==
    /\ pc = "done" /\ gets = 1 /\ op = "get_selected_backtests"
    /\ ~resp.exc /\ resp.status = 500
    /\ ret.kind = "str" /\ ret.text = ErrStatus \o <<"5", "0", "0">>

(***************************************************************************)
(* C6: the URL a run-accepting operation sends is the base                 *)
(* .../<endpoint>/<API_VERSION>/?run=<run>&timezone=<timezone>, then       *)
(* &init=<init_date> iff init_date was supplied, &end=<end_date> iff       *)
(* end_date was supplied, &init_ahead=<n> iff init_ahead was supplied and  *)
(* &end_ahead=<n> iff end_ahead was supplied, in this order; an offset of  *)
(* 0 counts as supplied.                                                   *)
(***************************************************************************)
Param(key, x, rendered) == IF Supplied(x) THEN <<key>> \o rendered ELSE <<>>

OffsetParam(key, x) == IF Supplied(x) THEN <<key>> \o IntToText(PyInt(x).v) ELSE <<>>

ExpectedUrl ==
    <<"https://api.sirocco.energy/national/", Endpoint(op), "/", API_VERSION, "/", "?run=">>
    \o PyStr(args.run) \o <<"&timezone=">> \o PyStr(args.timezone)
    \o Param("&init=", args.init_date, PyStr(args.init_date))
    \o Param("&end=", args.end_date, PyStr(args.end_date))
    \o OffsetParam("&init_ahead=", args.init_ahead)
    \o OffsetParam("&end_ahead=", args.end_ahead)

C6_UrlShape == (gets >= 1 /\ op \in RunOps) => url = ExpectedUrl

(***************************************************************************)
(* C7: get_my_projects on a 200 response returns the mapping from project  *)
(* id to project name built from the body's runs list when                 *)
(* return_id_project is true and the body's control flag is "Success", and *)
(* the parsed body unchanged in every other case (flag false, control flag *)
(* other than "Success" or absent).                                        *)
(***************************************************************************)
ExpectedMap(runs) ==
    [k \in {runs[j].id : j \in DOMAIN runs} |->
        LET j == CHOOSE m \in DOMAIN runs :
                    runs[m].id = k /\ \A n \in DOMAIN runs : runs[n].id = k => n <= m
        IN  runs[j].name]

C7_ProjectsOn200 ==
    ( /\ pc = "done" /\ gets >= 1 /\ op = "get_my_projects"
      /\ ~resp.exc /\ resp.status = 200 /\ resp.parses )
    => IF /\ args.return_id_project = PyB(TRUE)
          /\ "control" \in DOMAIN resp.body
          /\ resp.body.control = "Success"
       THEN "runs" \in DOMAIN resp.body =>
               (ret.kind = "map" /\ ret.val = ExpectedMap(resp.body.runs))
       ELSE ret.kind = "json" /\ ret.val = resp.body

(***************************************************************************)
(* C8: for a run that passes validation, the run= parameter of the URL     *)
(* sent is the integer the run converts to, not the argument as passed.    *)
(***************************************************************************)
C8_RunNormalized ==
    (gets >= 1 /\ op \in RunOps /\ RunAccepted) =>
        HasPrefix(url, BaseUrl(op) \o <<"?run=">> \o IntToText(PyInt(args.run).v)
                       \o <<"&timezone=">>)

(***************************************************************************)
(* C9: every call ends in one outcome and issues exactly one GET, except a *)
(* call that ends in a local validation failure, which issues none; a      *)
(* local validation failure is a returned validation string, or an error   *)
(* raised for a non-boolean return_id_project or for an offset-ordering    *)
(* violation.  No call issues a second GET.                                *)
(***************************************************************************)
ValidationStrings == {ErrRun, ErrInitDate, ErrEndDate, ErrInitAhead, ErrEndAhead}

ListedLocalFailure ==
    \/ ret.kind = "str" /\ ret.text \in ValidationStrings
    \/ ret.kind = "raise" /\ ret.text \in {ErrFlag, ErrOrder}

C9_OneGetUnlessRefused ==
    /\ gets <= 1
    /\ pc = "sent" => gets = 1
    /\ pc = "done" => (ret.kind # "none" /\ gets = IF ListedLocalFailure THEN 0 ELSE 1)

(***************************************************************************)
(* C10: no call modifies API_TOKEN or API_VERSION, and a call of the same  *)
(* operation with the same arguments as the first call made sends          *)
(* the same URL and headers, and is refused in the same way, whatever      *)
(* calls were made and however they ended in between.                      *)
(***************************************************************************)
SameAsRef ==
    (ref.set /\ Called /\ op = ref.op /\ args = ref.args) =>
        /\ url = ref.url
        /\ headers = ref.headers
        /\ (gets >= 1) = ref.sent
        /\ gets = 0 => ret = ref.ret

C10_ConfigFixedRequestsRepeat ==
    [][API_TOKEN' = API_TOKEN /\ API_VERSION' = API_VERSION /\ SameAsRef']_vars

\* the first call is repeated right after a call that ended in a transport
\* exception, and its request is out
C10_Witness ==
    /\ ref.set /\ last = "exception" /\ pc = "sent"
    /\ op = "get_selected_backtests" /\ op = ref.op /\ args = ref.args
    /\ url = ref.url /\ headers = ref.headers /\ headers # {}

====
